---- MODULE Spec2Model ----
(***************************************************************************)
(* State-machine model of src/app.py (Sales Analytics Dashboard): one run  *)
(* of the script for one uploaded workbook, from pd.read_excel to the last *)
(* rendered view.                                                          *)
(*                                                                         *)
(* Text (headers, STYLE_ID cells, category cells) is a tuple of            *)
(* one-character strings, so that str.strip and str.upper are computed.    *)
(* A float that pandas produces is a record [t, v]: t = "num" with value   *)
(* v, t = "nan" (missing) or t = "inf".  A percentage is an exact rational *)
(* [n, d] (d > 0, lowest terms); d = 0 encodes the IEEE results of a       *)
(* division by zero (n = 1: inf, n = -1: -inf, n = 0: nan).                *)
(***************************************************************************)
EXTENDS Integers, Sequences, FiniteSets, TLC

VARIABLES
  uploaded_file,    \* the workbook's 'Sales' sheet: [columns, bind, rows]
  pc,               \* position of the script
  columns,          \* sales_df.columns
  resolved,         \* canonical field -> actual header or None
  st_error,         \* what st.error displayed
  st_info,          \* what st.info("Available columns: ...") displayed
  sales_clean,      \* the table under construction in load_and_process_data
  duplicate_check,  \* number of rows flagged by duplicated(keep=False)
  df,               \* the table returned by load_and_process_data
  shown,            \* result outputs displayed so far
  summary,          \* the summary metrics (Avg Sales %, Overall Sales %)
  selected,         \* sidebar selections [year, month, efficiency]
  filtered_df,      \* the filtered record set
  filter_summary,   \* the "Filter Applied" sidebar block
  views             \* the aggregate views computed from filtered_df

vars == << uploaded_file, pc, columns, resolved, st_error, st_info, sales_clean,
           duplicate_check, df, shown, summary, selected, filtered_df,
           filter_summary, views >>

(***************************************************************************)
(* Text                                                                    *)
(***************************************************************************)
Lowercase ==
  << "a","b","c","d","e","f","g","h","i","j","k","l","m",
     "n","o","p","q","r","s","t","u","v","w","x","y","z" >>

Uppercase ==
  << "A","B","C","D","E","F","G","H","I","J","K","L","M",
     "N","O","P","Q","R","S","T","U","V","W","X","Y","Z" >>

\* the characters used, in code-point order (the order of Python's str <)
Alphabet ==
  << " ", "-", "0","1","2","3","4","5","6","7","8","9" >> \o Uppercase
     \o << "_" >> \o Lowercase

\* the position of each character in Alphabet
OrdOf == [c \in {Alphabet[i] : i \in 1..Len(Alphabet)} |->
            CHOOSE i \in 1..Len(Alphabet) : Alphabet[i] = c]

Ord(c) == OrdOf[c]

\* the upper-case letter of each lower-case letter
UpperOf == [c \in {Lowercase[i] : i \in 1..Len(Lowercase)} |->
              Uppercase[CHOOSE i \in 1..Len(Lowercase) : Lowercase[i] = c]]

\* str.upper on one character
UpperChar(c) == IF c \in DOMAIN UpperOf THEN UpperOf[c] ELSE c

\* str.upper
upper(s) == [i \in 1..Len(s) |-> UpperChar(s[i])]

RECURSIVE lstrip(_)
lstrip(s) == IF s # << >> /\ Head(s) = " " THEN lstrip(Tail(s)) ELSE s

RECURSIVE rstrip(_)
rstrip(s) ==
  IF s # << >> /\ s[Len(s)] = " " THEN rstrip(SubSeq(s, 1, Len(s) - 1)) ELSE s

\* str.strip
strip(s) == rstrip(lstrip(s))

\* Python's str < (lexicographic by code point)
RECURSIVE StrLess(_, _)
StrLess(a, b) ==
  IF b = << >> THEN FALSE
  ELSE IF a = << >> THEN TRUE
  ELSE IF Head(a) = Head(b) THEN StrLess(Tail(a), Tail(b))
  ELSE Ord(Head(a)) < Ord(Head(b))

\* Python's None (find_column's "not found"); no text is this tuple
None == << "None" >>

Range(s) == {s[i] : i \in 1..Len(s)}

(***************************************************************************)
(* Column aliases (load_and_process_data)                                  *)
(***************************************************************************)

StyleAliases ==
  << <<"S","t","y","l","e","_","I","D">>,
     <<"S","T","Y","L","E","_","I","D">>,
     <<"S","t","y","l","e","I","D">>,
     <<"S","K","U">>,
     <<"S","T","Y","L","E"," ","C","O","D","E">>,
     <<"S","T","Y","L","E","-","C","O","D","E">>,
     <<"S","t","y","l","e"," ","C","o","d","e">> >>

YearAliases ==
  << <<"Y","E","A","R">>,
     <<"Y","e","a","r">>,
     <<"S","A","L","E","S","_","Y","E","A","R">>,
     <<"S","a","l","e"," ","Y","e","a","r">> >>

MonthAliases ==
  << <<"M","O","N","T","H">>,
     <<"M","o","n","t","h">>,
     <<"S","A","L","E","S","_","M","O","N","T","H">>,
     <<"S","a","l","e"," ","M","o","n","t","h">> >>

QtyAliases ==
  << <<"Q","t","y">>,
     <<"Q","T","Y">>,
     <<"s","a","l","e","s"," ","Q","t","y">>,
     <<"s","a","l","e","s","_","Q","t","y">>,
     <<"S","a","l","e","s","_","Q","t","y">>,
     <<"S","a","l","e","s"," ","Q","t","y">>,
     <<"Q","u","a","n","t","i","t","y">>,
     <<"S","a","l","e","s","_","Q","T","Y">>,
     <<"S","A","L","E","S">> >>

OpeningStockAliases ==
  << <<"O","p","e","n","i","n","g","_","s","t","o","c","k">>,
     <<"O","p","e","n","i","n","g"," ","S","t","o","c","k">>,
     <<"O","P","E","N","I","N","G","_","S","T","O","C","K">>,
     <<"O","p","e","n","i","n","g","_","S","t","o","c","k">>,
     <<"o","p","e","n","i","n","g"," ","s","t","o","c","k">>,
     <<"O","p","e","n","i","n","g","S","t","o","c","k">>,
     <<"O","P","_","S","T","O","C","K">>,
     <<"O","p","e","n","i","n","g","_","S","t","o","c","k","_","Q","t","y">> >>

SubcategoryAliases ==
  << <<"S","u","b","c","a","t","e","g","o","r","y">>,
     <<"S","U","B","C","A","T","E","G","O","R","Y">>,
     <<"S","u","b","_","C","a","t","e","g","o","r","y">> >>

SeasonAliases ==
  << <<"S","e","a","s","o","n">>,
     <<"S","E","A","S","O","N">> >>

BrandAliases ==
  << <<"B","r","a","n","d">>,
     <<"B","R","A","N","D">> >>

ColorAliases ==
  << <<"C","o","l","o","r">>,
     <<"C","O","L","O","R">> >>

HeelTypeAliases ==
  << <<"H","e","e","l","_","T","y","p","e"," ","1">>,
     <<"H","e","e","l"," ","T","y","p","e"," ","1">>,
     <<"H","E","E","L","_","T","Y","P","E","_","1">>,
     <<"H","e","e","l","_","T","y","p","e","_","1">> >>

MaketplaceAliases ==
  << <<"M","a","k","e","t","p","l","a","c","e">>,
     <<"M","A","K","E","T","P","L","A","C","E">>,
     <<"M","a","r","k","e","t","p","l","a","c","e">>,
     <<"M","A","R","K","E","T","P","L","A","C","E">> >>

ClosingStockAliases ==
  << <<"C","l","o","s","i","n","g","_","s","t","o","c","k">>,
     <<"C","l","o","s","i","n","g"," ","S","t","o","c","k">>,
     <<"C","L","O","S","I","N","G","_","S","T","O","C","K">> >>

\* an alias list of the date field that also claims the year column
DateAliasesWithYear ==
  << <<"D","a","t","e">>,
     <<"D","A","T","E">>,
     <<"Y","e","a","r">> >>

DateAliases ==
  << <<"D","a","t","e">>,
     <<"D","A","T","E">> >>

(***************************************************************************)
(* Column resolution                                                       *)
(***************************************************************************)
\* required_cols_sales, in the order of the dict's keys
RequiredFields == << "Style", "Year", "Month", "Sales Qty", "Opening Stock" >>

\* the alias list passed to find_column for each required field
RequiredAliases(f) ==
  CASE f = "Style"         -> StyleAliases
    [] f = "Year"          -> YearAliases
    [] f = "Month"         -> MonthAliases
    [] f = "Sales Qty"     -> QtyAliases
    [] f = "Opening Stock" -> OpeningStockAliases

\* the keys of additional_cols_mapping, in the order of the dict
OptionalFields ==
  << "Subcategory", "Season", "Brand", "Color", "Heel_Type_1", "Maketplace",
     "Closing_stock", "Date" >>

additional_cols_mapping(f) ==
  CASE f = "Subcategory"   -> SubcategoryAliases
    [] f = "Season"        -> SeasonAliases
    [] f = "Brand"         -> BrandAliases
    [] f = "Color"         -> ColorAliases
    [] f = "Heel_Type_1"   -> HeelTypeAliases
    [] f = "Maketplace"    -> MaketplaceAliases
    [] f = "Closing_stock" -> ClosingStockAliases
    [] f = "Date"          -> DateAliases

\* df.columns = df.columns.astype(str).str.strip()
clean_columns(cols) == [i \in 1..Len(cols) |-> strip(cols[i])]

\* {col.upper(): col for col in df.columns}: a later column replaces an
\* earlier one under the same key
df_cols_upper(cols) ==
  LET ups == [i \in 1..Len(cols) |-> upper(cols[i])]
  IN  [u \in Range(ups) |->
         cols[CHOOSE i \in 1..Len(cols) :
                /\ ups[i] = u
                /\ \A j \in (i + 1)..Len(cols) : ups[j] # u]]

\* a find_column that compares names exactly instead of upper-cased
find_column_case_sensitive(cols, possible_names) ==
  LET hits == {j \in 1..Len(possible_names) : possible_names[j] \in Range(cols)}
  IN  IF hits = {} THEN None
      ELSE possible_names[CHOOSE j \in hits : \A k \in hits : j <= k]

\* find_column(df, possible_names), on df.columns
find_column(cols, possible_names) ==
  LET d    == df_cols_upper(cols)
      hits == {j \in 1..Len(possible_names) : upper(possible_names[j]) \in DOMAIN d}
  IN  IF hits = {} THEN None
      ELSE d[upper(possible_names[CHOOSE j \in hits : \A k \in hits : j <= k])]

\* a validation that forgets the opening-stock column
missing_sales_without_opening_stock(res) ==
  SelectSeq(SubSeq(RequiredFields, 1, 4), LAMBDA k : res[k] = None)

\* missing_sales = [k for k, v in required_cols_sales.items() if v is None]
missing_sales(res) == SelectSeq(RequiredFields, LAMBDA k : res[k] = None)

(***************************************************************************)
(* Cells and floats                                                        *)
(***************************************************************************)
\* a cell of the sheet as read by pd.read_excel
Text(s)   == [t |-> "text",  s |-> s,     v |-> 0]
Number(n) == [t |-> "num",   s |-> << >>, v |-> n]
Blank     == [t |-> "blank", s |-> << >>, v |-> 0]

\* a float64 value
Num(n) == [t |-> "num", v |-> n]
NaN    == [t |-> "nan", v |-> 0]
Inf    == [t |-> "inf", v |-> 0]

Digits == << "0","1","2","3","4","5","6","7","8","9" >>

IsDigit(c) == \E i \in 1..Len(Digits) : Digits[i] = c

DigitValue(c) == (CHOOSE i \in 1..Len(Digits) : Digits[i] = c) - 1

RECURSIVE ParseDigits(_, _)
ParseDigits(s, acc) ==
  IF s = << >> THEN acc ELSE ParseDigits(Tail(s), 10 * acc + DigitValue(Head(s)))

\* the text of a number cell (str(n)), for n >= 0
RECURSIVE DigitsOf(_)
DigitsOf(n) ==
  IF n < 10 THEN << Digits[n + 1] >> ELSE DigitsOf(n \div 10) \o << Digits[(n % 10) + 1] >>

\* pd.to_numeric(..., errors='coerce') on one cell: a number cell is itself,
\* text is parsed (surrounding blanks ignored, "inf" is a float), what does
\* not parse and a blank cell are NaN
to_numeric(c) ==
  CASE c.t = "num"   -> Num(c.v)
    [] c.t = "blank" -> NaN
    [] c.t = "text"  ->
         LET s == strip(c.s)
         IN  IF s # << >> /\ \A i \in 1..Len(s) : IsDigit(s[i])
             THEN Num(ParseDigits(s, 0))
             ELSE IF upper(s) \in {<<"I","N","F">>, <<"I","N","F","I","N","I","T","Y">>}
             THEN Inf
             ELSE NaN

\* .fillna(0) on one value of a quantity column; the quantity cells of the
\* uploads considered are finite, so the result is kept as an integer
fillna0(x) == IF x.t = "nan" THEN 0 ELSE x.v

\* .astype(str) on one cell
astype_str(c) ==
  CASE c.t = "text"  -> c.s
    [] c.t = "num"   -> DigitsOf(c.v)
    [] c.t = "blank" -> << "n", "a", "n" >>

\* pd.isna on a cell of an object column
IsNullCell(c) == c.t = "blank"

(***************************************************************************)
(* Uploads                                                                 *)
(***************************************************************************)
\* A sheet is its name, its header row and its rows.  bind[i] names the
\* field of a row record that holds the cells of column i.

\* the structure the in-app instructions document
DocumentedSheet ==
  [ sheet |-> "Sales",
    columns |-> << <<"S","t","y","l","e","_","I","D">>,
                   <<"Y","E","A","R">>,
                   <<"M","O","N","T","H">>,
                   <<"Q","t","y">>,
                   <<"O","p","e","n","i","n","g","_","s","t","o","c","k">>,
                   <<"M","a","k","e","t","p","l","a","c","e">>,
                   <<"B","r","a","n","d">> >>,
    bind |-> << "style", "year", "month", "qty", "open", "mkt", "brand" >> ]

\* other spellings, no marketplace column, a column the program ignores
VariantSheet ==
  [ sheet |-> "Sales",
    columns |-> << <<" ","s","t","y","l","e","_","i","d">>,
                   <<"Y","e","a","r"," ">>,
                   <<"m","o","n","t","h">>,
                   <<"S","A","L","E","S">>,
                   <<"O","P","_","S","T","O","C","K">>,
                   <<"R","e","m","a","r","k","s">>,
                   <<"b","r","a","n","d">> >>,
    bind |-> << "style", "year", "month", "qty", "open", "mkt", "brand" >> ]

\* no month and no opening-stock column
IncompleteSheet ==
  [ sheet |-> "Sales",
    columns |-> << <<"S","t","y","l","e","_","I","D">>,
                   <<"Y","E","A","R">>,
                   <<"Q","t","y">>,
                   <<"B","r","a","n","d">> >>,
    bind |-> << "style", "year", "qty", "brand" >> ]

\* two headers that are equal once stripped
RepeatedHeaderSheet ==
  [ sheet |-> "Sales",
    columns |-> << <<"S","t","y","l","e","_","I","D">>,
                   <<"Y","E","A","R">>,
                   <<"M","O","N","T","H">>,
                   <<"Q","t","y">>,
                   <<"Q","t","y"," ">>,
                   <<"O","p","e","n","i","n","g","_","s","t","o","c","k">> >>,
    bind |-> << "style", "year", "month", "qty", "open", "open" >> ]

\* a workbook without a sheet named 'Sales'
WrongNameSheet ==
  [ sheet |-> "Sheet1",
    columns |-> << <<"S","t","y","l","e","_","I","D">>,
                   <<"Y","E","A","R">>,
                   <<"M","O","N","T","H">>,
                   <<"Q","t","y">>,
                   <<"O","p","e","n","i","n","g","_","s","t","o","c","k">> >>,
    bind |-> << "style", "year", "month", "qty", "open" >> ]

Sheets == { DocumentedSheet, VariantSheet, IncompleteSheet, RepeatedHeaderSheet,
            WrongNameSheet }

Row(style, year, month, qty, open, mkt, brand) ==
  [ style |-> style, year |-> year, month |-> month, qty |-> qty,
    open |-> open, mkt |-> mkt, brand |-> brand ]

S1 == <<"S","1">>
S2 == <<"S","2">>
S3 == <<"S","3">>
Y2024 == <<"2","0","2","4">>

\* the rows an uploaded sheet is made of: a repeated key (rows 1 and 2, once
\* the style is stripped and the year parsed, in a sheet without marketplace
\* column; with one they differ in it), a quantity that does not
\* parse, a blank year and a blank opening stock, a negative quantity, a
\* month outside 1..12, a blank marketplace, an infinite year
RowPool ==
  { Row(Text(S1), Number(2024), Number(1), Number(30), Number(100),
        Text(<<"A">>), Blank),
    Row(Text(<<" ">> \o S1), Text(Y2024), Number(1), Number(20), Number(40),
        Text(<<"B">>), Text(<<"X">>)),
    Row(Text(S2), Number(2024), Number(2), Text(<<"x">>), Number(50),
        Text(<<"B">>), Text(<<"Y">>)),
    Row(Text(S2), Blank, Number(2), Number(-5), Blank,
        Text(<<"A">>), Text(<<"Y">>)),
    Row(Text(S3), Number(2025), Number(13), Number(70), Number(50),
        Blank, Blank),
    Row(Text(S1), Text(<<"i","n","f">>), Number(2), Number(8), Number(10),
        Text(<<"B">>), Text(<<"X">>)) }

\* the largest number of rows of an uploaded sheet
MaxRows == 3

RECURSIVE SeqsUpTo(_, _)
SeqsUpTo(S, n) ==
  IF n = 0 THEN { << >> }
  ELSE LET shorter == SeqsUpTo(S, n - 1)
       IN  shorter \cup {Append(s, x) : s \in {q \in shorter : Len(q) = n - 1}, x \in S}

Uploads ==
  { [sheet |-> s.sheet, columns |-> s.columns, bind |-> s.bind, rows |-> rows] :
      s \in Sheets, rows \in SeqsUpTo(RowPool, MaxRows) }

\* the headers a sheet of the header-only uploads is made of: spellings of
\* required and optional fields in other cases and with surrounding blanks,
\* aliases of one field in two columns, a header the program does not know
HeaderPool ==
  { <<"s","t","y","l","e","_","i","d">>,
    <<"S","T","Y","L","E","_","I","D"," ">>,
    <<" ","S","t","y","l","e","_","I","d">>,
    <<"S","K","U">>,
    <<"Y","e","a","r">>,
    <<"Q","t","y"," ">>,
    <<"S","a","l","e","s">>,
    <<"M","a","k","e","t","p","l","a","c","e">>,
    <<"M","A","R","K","E","T","P","L","A","C","E"," ">>,
    <<"D","a","t","e">>,
    <<"R","e","m","a","r","k","s">> }

\* the required columns a header-only upload starts from: none, the
\* documented ones, other aliases of them
BaseHeaders ==
  { << >>,
    << <<"S","t","y","l","e","_","I","D">>,
       <<"Y","E","A","R">>,
       <<"M","O","N","T","H">>,
       <<"Q","t","y">>,
       <<"O","p","e","n","i","n","g","_","s","t","o","c","k">> >>,
    << <<"S","T","Y","L","E"," ","C","O","D","E">>,
       <<"S","a","l","e"," ","Y","e","a","r">>,
       <<"s","a","l","e","s","_","m","o","n","t","h">>,
       <<"Q","u","a","n","t","i","t","y">>,
       <<"O","p","e","n","i","n","g","S","t","o","c","k">> >> }

\* the largest number of headers added to the base of a header-only upload
MaxExtraHeaders == 2

\* pd.read_excel renames a repeated header, so the headers read are distinct
Distinct(s) == \A i, j \in 1..Len(s) : s[i] = s[j] => i = j

\* sheets without rows, over many header rows
HeaderUploads ==
  { [sheet |-> "Sales", columns |-> c, bind |-> << >>, rows |-> << >>] :
      c \in { h \in {b \o e : b \in BaseHeaders,
                                e \in SeqsUpTo(HeaderPool, MaxExtraHeaders)}
                     \cup {e \o b : b \in BaseHeaders,
                                     e \in SeqsUpTo(HeaderPool, MaxExtraHeaders)} :
                Distinct(h) } }

\* the cells of column i of the sheet, top to bottom
ColumnCells(file, i) ==
  [r \in 1..Len(file.rows) |-> file.rows[r][file.bind[i]]]

\* the positions of the columns named name
Positions(cols, name) == {i \in 1..Len(cols) : cols[i] = name}

\* sales_df[name] is a Series: exactly one column has that name (with two,
\* pandas returns a DataFrame)
IsSeries(cols, name) == Cardinality(Positions(cols, name)) = 1

\* sales_df[name], when it is a Series
Series(file, cols, name) ==
  ColumnCells(file, CHOOSE i \in Positions(cols, name) : TRUE)

(***************************************************************************)
(* Exact arithmetic for percentages                                        *)
(***************************************************************************)
Abs(x) == IF x < 0 THEN -x ELSE x

Sign(x) == IF x < 0 THEN -1 ELSE IF x > 0 THEN 1 ELSE 0

RECURSIVE GCD(_, _)
GCD(a, b) == IF b = 0 THEN a ELSE GCD(b, a % b)

\* the rational n/d in lowest terms; d = 0 gives inf, -inf or nan
Rat(n, d) ==
  IF d = 0 THEN [n |-> Sign(n), d |-> 0]
  ELSE LET g == GCD(Abs(n), Abs(d))
       IN  [n |-> Sign(d) * (n \div g), d |-> Abs(d) \div g]

RatOfInt(k) == [n |-> k, d |-> 1]

IsFinite(p) == p.d > 0

\* p + q, for finite p and q
RatAdd(p, q) == Rat(p.n * q.d + q.n * p.d, p.d * q.d)

\* p <= k for an integer k (nan compares false, -inf is below everything)
RatLeInt(p, k) == IF p.d > 0 THEN p.n <= k * p.d ELSE p.n = -1

\* p < q, for finite p and q
RatLess(p, q) == p.n * q.d < q.n * p.d

\* (numerator / denominator) * 100 as numpy computes it: a zero denominator
\* gives inf or nan, not an exception
PercentOf(numerator, denominator) == Rat(100 * numerator, denominator)

\* a percentage guarded by >= 0 instead of > 0
sales_percentage_guard_ge(sales_qty, opening_stock) ==
  IF opening_stock >= 0 THEN PercentOf(sales_qty, opening_stock) ELSE RatOfInt(0)

\* np.where(OPENING_STOCK > 0, (SALES_QTY / OPENING_STOCK) * 100, 0), one element
sales_percentage(sales_qty, opening_stock) ==
  IF opening_stock > 0 THEN PercentOf(sales_qty, opening_stock) ELSE RatOfInt(0)

RECURSIVE SumInts(_)
SumInts(s) == IF s = << >> THEN 0 ELSE Head(s) + SumInts(Tail(s))

RECURSIVE SumRats(_)
SumRats(s) == IF s = << >> THEN RatOfInt(0) ELSE RatAdd(Head(s), SumRats(Tail(s)))

\* Series.mean(): nan for an empty series
Mean(s) == IF s = << >> THEN Rat(0, 0)
           ELSE LET t == SumRats(s) IN Rat(t.n, t.d * Len(s))

\* the column col of a table, as a sequence
Col(table, col) == [i \in 1..Len(table) |-> table[i][col]]

(***************************************************************************)
(* Table Normalizer                                                        *)
(***************************************************************************)
\* the optional fields whose column was found (if found_col:)
FoundOptional(res) == {f \in Range(OptionalFields) : f \in DOMAIN res /\ res[f] # None}

\* lines 152-153: find_column for every entry of additional_cols_mapping,
\* added to the resolution of the required fields
with_optional(cols, res) ==
  [f \in Range(RequiredFields) \cup Range(OptionalFields) |->
     IF f \in DOMAIN res THEN res[f]
     ELSE find_column(cols, additional_cols_mapping(f))]

\* every column that lines 132-155 read from sales_df
ColumnsRead(res) == {res[f] : f \in Range(RequiredFields) \cup FoundOptional(res)}

\* lines 132-155 raise when a column that is read is not a Series
normalize_raises(cols, res) == \E name \in ColumnsRead(res) : ~IsSeries(cols, name)

\* sales_clean of lines 132-155, res resolving required and optional fields
Normalized(file, cols, res) ==
  LET style   == Series(file, cols, res["Style"])
      year    == Series(file, cols, res["Year"])
      month   == Series(file, cols, res["Month"])
      qty     == Series(file, cols, res["Sales Qty"])
      opening == Series(file, cols, res["Opening Stock"])
      extra   == [f \in FoundOptional(res) |-> Series(file, cols, res[f])]
  IN  [r \in 1..Len(file.rows) |->
        [ STYLE_ID      |-> strip(astype_str(style[r])),
          YEAR          |-> to_numeric(year[r]),
          MONTH         |-> to_numeric(month[r]),
          SALES_QTY     |-> fillna0(to_numeric(qty[r])),
          OPENING_STOCK |-> fillna0(to_numeric(opening[r])),
          extra         |-> [f \in FoundOptional(res) |-> extra[f][r]] ]]

(***************************************************************************)
(* Duplicate Collapser                                                     *)
(***************************************************************************)
CoreColumns == {"STYLE_ID", "YEAR", "MONTH", "SALES_QTY", "OPENING_STOCK"}

\* row[col], for a core or an optional column
Value(row, col) == IF col \in DOMAIN row THEN row[col] ELSE row.extra[col]

\* pd.isna on a value of column col (STYLE_ID is text, never missing)
IsNull(col, x) ==
  CASE col \in {"YEAR", "MONTH"} -> x.t = "nan"
    [] col = "STYLE_ID"          -> FALSE
    [] OTHER                     -> IsNullCell(x)

\* the order groupby sorts the values of a key column in; the cells of a
\* category column of the uploads considered are text
ValueLess(col, x, y) ==
  CASE col \in {"YEAR", "MONTH"} ->
         \/ x.t = "num" /\ y.t = "num" /\ x.v < y.v
         \/ x.t = "num" /\ y.t = "inf"
    [] col = "STYLE_ID"          -> StrLess(x, y)
    [] OTHER                     -> StrLess(astype_str(x), astype_str(y))

\* duplicate_subset (lines 159-163)
duplicate_subset(extras) ==
  IF "Maketplace" \in extras
  THEN << "STYLE_ID", "YEAR", "MONTH", "Maketplace" >>
  ELSE << "STYLE_ID", "YEAR", "MONTH" >>

\* the values of a row in the columns by
KeyOf(row, by) == [i \in 1..Len(by) |-> Value(row, by[i])]

KeyHasNull(key, by) == \E i \in 1..Len(by) : IsNull(by[i], key[i])

\* lexicographic order of two keys
KeyLess(a, b, by) ==
  \E i \in 1..Len(by) :
     /\ ValueLess(by[i], a[i], b[i])
     /\ \A j \in 1..(i - 1) : a[j] = b[j]

\* the keys in S in ascending order
RECURSIVE SortKeys(_, _)
SortKeys(S, by) ==
  IF S = {} THEN << >>
  ELSE LET least == CHOOSE k \in S : \A o \in S \ {k} : KeyLess(k, o, by)
       IN  << least >> \o SortKeys(S \ {least}, by)

\* a detection that only compares a row with the row before it
duplicated_count_adjacent(table, by) ==
  Cardinality({i \in 2..Len(table) : KeyOf(table[i - 1], by) = KeyOf(table[i], by)})

\* sales_clean.duplicated(subset=by, keep=False).sum(): the rows whose key
\* another row has too (missing values compare equal here)
duplicated_count(table, by) ==
  Cardinality({i \in 1..Len(table) :
                 \E j \in 1..Len(table) :
                    j # i /\ KeyOf(table[j], by) = KeyOf(table[i], by)})

\* the positions of the rows with key k, in row order
RowsOf(table, by, k) ==
  SelectSeq([i \in 1..Len(table) |-> i], LAMBDA i : KeyOf(table[i], by) = k)

\* GroupBy 'first': the first value that is not missing, else missing
RECURSIVE FirstCell(_)
FirstCell(cells) ==
  IF cells = << >> THEN Blank
  ELSE IF ~IsNullCell(Head(cells)) THEN Head(cells)
  ELSE FirstCell(Tail(cells))

\* the keys groupby makes groups for: dropna=True drops a key with a missing part
GroupKeys(table, by) ==
  {k \in {KeyOf(table[i], by) : i \in 1..Len(table)} : ~KeyHasNull(k, by)}

\* an aggregation that sums OPENING_STOCK as it sums SALES_QTY
agg_opening_stock_sum(table, members) ==
  SumInts([m \in 1..Len(members) |-> table[members[m]].OPENING_STOCK])

\* agg_dict['OPENING_STOCK'] = 'first' (never missing after fillna(0))
agg_opening_stock(table, members) == table[members[1]].OPENING_STOCK

\* sales_clean.groupby(by, as_index=False).agg(agg_dict)  (line 177)
groupby_agg(table, by, extras) ==
  LET keys == SortKeys(GroupKeys(table, by), by)
  IN  [g \in 1..Len(keys) |->
        LET members == RowsOf(table, by, keys[g])
        IN  [ STYLE_ID      |-> keys[g][1],
              YEAR          |-> keys[g][2],
              MONTH         |-> keys[g][3],
              SALES_QTY     |-> SumInts([m \in 1..Len(members) |->
                                           table[members[m]].SALES_QTY]),
              OPENING_STOCK |-> agg_opening_stock(table, members),
              extra         |-> [f \in extras |->
                                   IF f = "Maketplace" THEN keys[g][4]
                                   ELSE FirstCell([m \in 1..Len(members) |->
                                                     table[members[m]].extra[f]])] ]]

\* a collapser that groups whether or not a duplicate was detected
collapse_always(table, extras) == groupby_agg(table, duplicate_subset(extras), extras)

\* lines 157-177: the table after duplicate handling
collapse(table, extras) ==
  IF duplicated_count(table, duplicate_subset(extras)) > 0
  THEN groupby_agg(table, duplicate_subset(extras), extras)
  ELSE table

(***************************************************************************)
(* Metric Calculator                                                       *)
(***************************************************************************)
\* month_names (lines 180-182)
month_names ==
  << "January", "February", "March", "April", "May", "June", "July",
     "August", "September", "October", "November", "December" >>

\* a missing MONTH_NAME
NoName == "NaN"

\* sales_clean['MONTH'].map(month_names), one element
month_name(month) ==
  IF month.t = "num" /\ month.v \in 1..Len(month_names)
  THEN month_names[month.v] ELSE NoName

\* a classification whose upper thresholds are exclusive
classify_sales_percentage_strict(percent) ==
  IF percent = RatOfInt(0) THEN "No Opening Stock"
  ELSE IF RatLess(percent, RatOfInt(30)) THEN "Low (<30%)"
  ELSE IF RatLess(percent, RatOfInt(60)) THEN "Medium (30-60%)"
  ELSE IF RatLess(percent, RatOfInt(100)) THEN "High (60-100%)"
  ELSE "Very High (>100%)"

\* classify_sales_percentage (lines 194-204)
classify_sales_percentage(percent) ==
  IF percent = RatOfInt(0) THEN "No Opening Stock"
  ELSE IF RatLeInt(percent, 30) THEN "Low (<30%)"
  ELSE IF RatLeInt(percent, 60) THEN "Medium (30-60%)"
  ELSE IF RatLeInt(percent, 100) THEN "High (60-100%)"
  ELSE "Very High (>100%)"

\* lines 179-206: the derived columns of one row
derive_row(row) ==
  LET percent == sales_percentage(row.SALES_QTY, row.OPENING_STOCK)
  IN  [ STYLE_ID         |-> row.STYLE_ID,
        YEAR             |-> row.YEAR,
        MONTH            |-> row.MONTH,
        SALES_QTY        |-> row.SALES_QTY,
        OPENING_STOCK    |-> row.OPENING_STOCK,
        extra            |-> row.extra,
        MONTH_NAME       |-> month_name(row.MONTH),
        SALES_PERCENTAGE |-> percent,
        SALES_EFFICIENCY |-> classify_sales_percentage(percent) ]

\* lines 179-206 on the collapsed table
derive(table) == [i \in 1..Len(table) |-> derive_row(table[i])]

\* df[df['OPENING_STOCK'] > 0]['SALES_PERCENTAGE'].mean()
avg_sales_percentage(table) ==
  Mean(Col(SelectSeq(table, LAMBDA r : r.OPENING_STOCK > 0), "SALES_PERCENTAGE"))

\* "Overall Sales %" (lines 257-258)
sales_ratio(table) ==
  LET stocked == SumInts(Col(SelectSeq(table, LAMBDA r : r.OPENING_STOCK > 0),
                             "OPENING_STOCK"))
  IN  IF stocked > 0 THEN PercentOf(SumInts(Col(table, "SALES_QTY")), stocked)
      ELSE RatOfInt(0)

(***************************************************************************)
(* Filters                                                                 *)
(***************************************************************************)
\* efficiency_options (line 286)
efficiency_options ==
  << "All", "Very High (>100%)", "High (60-100%)", "Medium (30-60%)",
     "Low (<30%)", "No Opening Stock" >>

\* a sidebar year selection: 'All' or one of the years
AllYears  == [all |-> TRUE, year |-> 0]
OneYear(y) == [all |-> FALSE, year |-> y]

\* a list of values that keeps the missing ones
NotMissing_keep_all(table, col) == {r[col] : r \in Range(table)}

\* df[col].dropna().unique(): the values that are not missing
NotMissing(table, col) == {r[col] : r \in {q \in Range(table) : q[col].t # "nan"}}

\* lines 276-277 raise OverflowError: int() of an infinite float
FilterOptionsRaise(table) ==
  \E col \in {"YEAR", "MONTH"} : \E x \in NotMissing(table, col) : x.t = "inf"

\* years (line 276), as a set
years(table) == {x.v : x \in NotMissing(table, "YEAR")}

\* months (line 277), as a set
months(table) == {x.v : x \in NotMissing(table, "MONTH")}

\* the options of "Select Year" (line 282)
year_options(table) == {AllYears} \cup {OneYear(y) : y \in years(table)}

\* the options of "Select Month" (line 283)
month_options(table) ==
  {"All"} \cup {month_names[m] : m \in {k \in months(table) : k \in 1..Len(month_names)}}

\* month_num (line 296)
month_num(name) == CHOOSE k \in 1..Len(month_names) : month_names[k] = name

\* a filter that ignores the efficiency selection
apply_filters_without_efficiency(table, sel) ==
  LET by_year == IF sel.year.all THEN table
                 ELSE SelectSeq(table, LAMBDA r : r.YEAR = Num(sel.year.year))
  IN  IF sel.month = "All" THEN by_year
      ELSE SelectSeq(by_year, LAMBDA r : r.MONTH = Num(month_num(sel.month)))

\* lines 290-300
apply_filters(table, sel) ==
  LET by_year  == IF sel.year.all THEN table
                  ELSE SelectSeq(table, LAMBDA r : r.YEAR = Num(sel.year.year))
      by_month == IF sel.month = "All" THEN by_year
                  ELSE SelectSeq(by_year, LAMBDA r : r.MONTH = Num(month_num(sel.month)))
  IN  IF sel.efficiency = "All" THEN by_month
      ELSE SelectSeq(by_month, LAMBDA r : r.SALES_EFFICIENCY = sel.efficiency)

(***************************************************************************)
(* Aggregation Views                                                       *)
(***************************************************************************)
\* the rows of table in descending order of SALES_PERCENTAGE, rows with equal
\* percentages in their order in table
RECURSIVE sort_descending(_)
sort_descending(table) ==
  IF table = << >> THEN << >>
  ELSE LET top == CHOOSE i \in 1..Len(table) :
                     /\ \A j \in 1..Len(table) :
                          ~RatLess(table[i].SALES_PERCENTAGE, table[j].SALES_PERCENTAGE)
                     /\ \A j \in 1..(i - 1) :
                          RatLess(table[j].SALES_PERCENTAGE, table[i].SALES_PERCENTAGE)
       IN  << table[top] >> \o
           sort_descending(SubSeq(table, 1, top - 1) \o SubSeq(table, top + 1, Len(table)))

\* the rows of table in ascending order of SALES_PERCENTAGE
RECURSIVE sort_ascending(_)
sort_ascending(table) ==
  IF table = << >> THEN << >>
  ELSE LET low == CHOOSE i \in 1..Len(table) :
                     /\ \A j \in 1..Len(table) :
                          ~RatLess(table[j].SALES_PERCENTAGE, table[i].SALES_PERCENTAGE)
                     /\ \A j \in 1..(i - 1) :
                          RatLess(table[i].SALES_PERCENTAGE, table[j].SALES_PERCENTAGE)
       IN  << table[low] >> \o
           sort_ascending(SubSeq(table, 1, low - 1) \o SubSeq(table, low + 1, Len(table)))

\* the rows of table in descending order of the integer column col
RECURSIVE sort_descending_by(_, _)
sort_descending_by(table, col) ==
  IF table = << >> THEN << >>
  ELSE LET top == CHOOSE i \in 1..Len(table) :
                     /\ \A j \in 1..Len(table) : table[j][col] <= table[i][col]
                     /\ \A j \in 1..(i - 1) : table[j][col] < table[i][col]
       IN  << table[top] >> \o
           sort_descending_by(SubSeq(table, 1, top - 1) \o SubSeq(table, top + 1, Len(table)),
                              col)

\* the percentage of a group: np.where(OPENING_STOCK > 0, ...) on the sums
group_percentage(table, members) ==
  sales_percentage(SumInts([m \in 1..Len(members) |-> table[members[m]].SALES_QTY]),
                   SumInts([m \in 1..Len(members) |-> table[members[m]].OPENING_STOCK]))

\* table.groupby(by).agg({'SALES_QTY': 'sum', 'OPENING_STOCK': 'sum'}).reset_index()
\* followed by the SALES_PERCENTAGE column: one row per key, in key order
grouped_sums(table, by) ==
  LET keys == SortKeys(GroupKeys(table, by), by)
  IN  [g \in 1..Len(keys) |->
        LET members == RowsOf(table, by, keys[g])
        IN  [ key              |-> keys[g],
              SALES_QTY        |-> SumInts([m \in 1..Len(members) |->
                                              table[members[m]].SALES_QTY]),
              OPENING_STOCK    |-> SumInts([m \in 1..Len(members) |->
                                              table[members[m]].OPENING_STOCK]),
              SALES_PERCENTAGE |-> group_percentage(table, members) ]]

\* df.columns of the returned table
TableColumns(extras) ==
  CoreColumns \cup {"MONTH_NAME", "SALES_PERCENTAGE", "SALES_EFFICIENCY"} \cup extras

\* analyze_with_stock(df, group_col, group_name) (lines 319-340); the table's
\* optional columns are extras
analyze_with_stock(table, extras, group_col, group_name) ==
  IF group_col \notin TableColumns(extras) THEN << >>
  ELSE LET grouped == sort_descending(grouped_sums(table, << group_col >>))
       IN  [i \in 1..Len(grouped) |->
             [ column           |-> group_name,
               value            |-> grouped[i].key[1],
               SALES_QTY        |-> grouped[i].SALES_QTY,
               OPENING_STOCK    |-> grouped[i].OPENING_STOCK,
               SALES_PERCENTAGE |-> grouped[i].SALES_PERCENTAGE ]]

\* category_options (lines 434-440), in the order of the dict
category_options ==
  << << "Season", "Season" >>, << "Subcategory", "Subcategory" >>,
     << "Color", "Color" >>, << "Brand", "Brand" >>,
     << "Heel_Type_1", "Heel Type" >> >>

\* a list of categories that does not look at the columns of the table
available_categories_all(extras) == category_options

\* available_categories (lines 442-444)
available_categories(extras) == SelectSeq(category_options, LAMBDA c : c[1] \in extras)

\* monthly_data (lines 499-512): groupby drops the rows with a missing YEAR,
\* MONTH or MONTH_NAME; MONTH_NAME is a function of MONTH, so the groups are
\* the (YEAR, MONTH) pairs and the final order is by YEAR, then MONTH
monthly_data(table) ==
  LET named   == SelectSeq(table, LAMBDA r : r.MONTH_NAME # NoName)
      grouped == grouped_sums(named, << "YEAR", "MONTH" >>)
  IN  [i \in 1..Len(grouped) |->
        [ YEAR             |-> grouped[i].key[1],
          MONTH            |-> grouped[i].key[2],
          MONTH_NAME       |-> month_name(grouped[i].key[2]),
          SALES_QTY        |-> grouped[i].SALES_QTY,
          OPENING_STOCK    |-> grouped[i].OPENING_STOCK,
          SALES_PERCENTAGE |-> grouped[i].SALES_PERCENTAGE ]]

\* the options of "Sort products by:" (line 590)
sort_options ==
  << "Sales Percentage (Highest)", "Sales Quantity (Highest)",
     "Opening Stock (Highest)", "Sales Percentage (Lowest)" >>

\* product_data (lines 575-602)
product_data(table, sort_option) ==
  LET grouped == grouped_sums(table, << "STYLE_ID" >>)
      sorted  == CASE sort_option = "Sales Percentage (Highest)" -> sort_descending(grouped)
                   [] sort_option = "Sales Quantity (Highest)"   ->
                        sort_descending_by(grouped, "SALES_QTY")
                   [] sort_option = "Opening Stock (Highest)"    ->
                        sort_descending_by(grouped, "OPENING_STOCK")
                   [] OTHER                                      -> sort_ascending(grouped)
  IN  [i \in 1..Len(sorted) |->
        [ STYLE_ID         |-> sorted[i].key[1],
          SALES_QTY        |-> sorted[i].SALES_QTY,
          OPENING_STOCK    |-> sorted[i].OPENING_STOCK,
          SALES_PERCENTAGE |-> sorted[i].SALES_PERCENTAGE ]]

\* the SALES_EFFICIENCY labels, in the order groupby sorts them
EfficiencyLabels ==
  << "High (60-100%)", "Low (<30%)", "Medium (30-60%)", "No Opening Stock",
     "Very High (>100%)" >>

\* efficiency_data (lines 659-662)
efficiency_data(table) ==
  LET present == SelectSeq(EfficiencyLabels,
                           LAMBDA l : \E r \in Range(table) : r.SALES_EFFICIENCY = l)
  IN  [i \in 1..Len(present) |->
        LET rows == SelectSeq(table, LAMBDA r : r.SALES_EFFICIENCY = present[i])
        IN  [ SALES_EFFICIENCY |-> present[i],
              STYLE_ID         |-> Cardinality({r.STYLE_ID : r \in Range(rows)}),
              SALES_QTY        |-> SumInts(Col(rows, "SALES_QTY")) ]]

(***************************************************************************)
(* The run of the script                                                   *)
(***************************************************************************)
NoMessage == [kind |-> "none", fields |-> << >>]

NoResolution == [f \in {} |-> None]

NoSummary == [records |-> 0, total_sales |-> 0, total_opening_stock |-> 0,
              percentage |-> RatOfInt(0), overall |-> RatOfInt(0)]

NoSelection == [year |-> AllYears, month |-> "All", efficiency |-> "All"]

NoViews == [marketplace |-> << >>, categories |-> << >>, monthly |-> << >>,
            products |-> << >>, efficiency |-> << >>]

\* the optional columns of sales_clean
Extras == FoundOptional(resolved)

\* the displays that present results of the run
ResultOutputs ==
  { "processing_complete", "success", "summary_metrics", "filter_summary",
    "marketplace_view", "category_views", "monthly_view", "product_view",
    "efficiency_view", "validation_details" }

Start(file) ==
  /\ uploaded_file = file
  /\ pc = "read"
  /\ columns = << >>
  /\ resolved = NoResolution
  /\ st_error = NoMessage
  /\ st_info = NoMessage
  /\ sales_clean = << >>
  /\ duplicate_check = 0
  /\ df = << >>
  /\ shown = {}
  /\ summary = NoSummary
  /\ selected = NoSelection
  /\ filtered_df = << >>
  /\ filter_summary = NoSummary
  /\ views = NoViews

Init == \E file \in Uploads \cup HeaderUploads : Start(file)

\* lines 79-97: read the 'Sales' sheet and clean its column names
ReadExcel ==
  /\ pc = "read"
  /\ uploaded_file.sheet = "Sales"
  /\ columns' = clean_columns(uploaded_file.columns)
  /\ pc' = "identify"
  /\ UNCHANGED << uploaded_file, resolved, st_error, st_info, sales_clean,
                  duplicate_check, df, shown, summary, selected, filtered_df,
                  filter_summary, views >>

\* line 79 raises (no sheet named 'Sales'); lines 224-228 report it and stop
ReadExcelRaises ==
  /\ pc = "read"
  /\ uploaded_file.sheet # "Sales"
  /\ st_error' = [kind |-> "load", fields |-> << >>]
  /\ pc' = "stopped"
  /\ UNCHANGED << uploaded_file, columns, resolved, st_info, sales_clean,
                  duplicate_check, df, shown, summary, selected, filtered_df,
                  filter_summary, views >>

\* lines 108-113: the five find_column calls
required_cols_sales(cols) ==
  [f \in Range(RequiredFields) |-> find_column(cols, RequiredAliases(f))]

\* lines 107-126 when every required column is found
IdentifyColumns ==
  /\ pc = "identify"
  /\ LET res == required_cols_sales(columns)
     IN  /\ missing_sales(res) = << >>
         /\ resolved' = res
  /\ pc' = "normalize"
  /\ UNCHANGED << uploaded_file, columns, st_error, st_info, sales_clean,
                  duplicate_check, df, shown, summary, selected, filtered_df,
                  filter_summary, views >>

\* lines 107-129 when a required column is missing: st.error, st.info, st.stop
MissingColumns ==
  /\ pc = "identify"
  /\ LET res == required_cols_sales(columns)
     IN  /\ missing_sales(res) # << >>
         /\ resolved' = res
         /\ st_error' = [kind |-> "missing", fields |-> missing_sales(res)]
  /\ st_info' = [kind |-> "columns", fields |-> columns]
  /\ pc' = "stopped"
  /\ UNCHANGED << uploaded_file, columns, sales_clean, duplicate_check, df, shown,
                  summary, selected, filtered_df, filter_summary, views >>

\* lines 131-155: the clean table and its optional columns
Normalize ==
  /\ pc = "normalize"
  /\ LET res == with_optional(columns, resolved)
     IN  /\ ~normalize_raises(columns, res)
         /\ sales_clean' = Normalized(uploaded_file, columns, res)
         /\ resolved' = res
  /\ pc' = "duplicates"
  /\ UNCHANGED << uploaded_file, columns, st_error, st_info, duplicate_check, df,
                  shown, summary, selected, filtered_df, filter_summary, views >>

\* lines 131-155 raise; lines 224-228 report it and stop
NormalizeRaises ==
  /\ pc = "normalize"
  /\ normalize_raises(columns, with_optional(columns, resolved))
  /\ st_error' = [kind |-> "load", fields |-> << >>]
  /\ pc' = "stopped"
  /\ UNCHANGED << uploaded_file, columns, resolved, st_info, sales_clean,
                  duplicate_check, df, shown, summary, selected, filtered_df,
                  filter_summary, views >>

\* lines 157-177: duplicate detection and aggregation
HandleDuplicates ==
  /\ pc = "duplicates"
  /\ duplicate_check' = duplicated_count(sales_clean, duplicate_subset(Extras))
  /\ sales_clean' = collapse(sales_clean, Extras)
  /\ pc' = "derive"
  /\ UNCHANGED << uploaded_file, columns, resolved, st_error, st_info, df, shown,
                  summary, selected, filtered_df, filter_summary, views >>

\* lines 179-222: derived columns, the sidebar summary, return sales_clean
Derive ==
  /\ pc = "derive"
  /\ df' = derive(sales_clean)
  /\ shown' = shown \cup {"processing_complete"}
  /\ pc' = "summary"
  /\ UNCHANGED << uploaded_file, columns, resolved, st_error, st_info, sales_clean,
                  duplicate_check, summary, selected, filtered_df, filter_summary,
                  views >>

\* the numbers of a summary block over table
summary_of(table) ==
  [ records             |-> Len(table),
    total_sales         |-> SumInts(Col(table, "SALES_QTY")),
    total_opening_stock |-> SumInts(Col(table, "OPENING_STOCK")),
    percentage          |-> avg_sales_percentage(table),
    overall             |-> sales_ratio(table) ]

\* lines 236-270: the success message and the summary metrics
Summary ==
  /\ pc = "summary"
  /\ summary' = summary_of(df)
  /\ shown' = shown \cup {"success", "summary_metrics"}
  /\ pc' = "filter"
  /\ UNCHANGED << uploaded_file, columns, resolved, st_error, st_info, sales_clean,
                  duplicate_check, df, selected, filtered_df, filter_summary, views >>

\* lines 272-313: the sidebar selections, the filtered set and its summary
Filter ==
  /\ pc = "filter"
  /\ ~FilterOptionsRaise(df)
  /\ \E y \in year_options(df), m \in month_options(df),
        e \in Range(efficiency_options) :
       selected' = [year |-> y, month |-> m, efficiency |-> e]
  /\ filtered_df' = apply_filters(df, selected')
  /\ filter_summary' = [summary_of(filtered_df') EXCEPT !.overall = RatOfInt(0)]
  /\ shown' = shown \cup {"filter_summary"}
  /\ pc' = "filtered"
  /\ UNCHANGED << uploaded_file, columns, resolved, st_error, st_info, sales_clean,
                  duplicate_check, df, summary, views >>

\* lines 276-277 raise; lines 763-766 report it
FilterRaises ==
  /\ pc = "filter"
  /\ FilterOptionsRaise(df)
  /\ st_error' = [kind |-> "main", fields |-> << >>]
  /\ pc' = "failed"
  /\ UNCHANGED << uploaded_file, columns, resolved, st_info, sales_clean,
                  duplicate_check, df, shown, summary, selected, filtered_df,
                  filter_summary, views >>

\* a script without the emptiness check: the views of the empty set
EmptyRenders ==
  /\ pc = "filtered"
  /\ Len(filtered_df) = 0
  /\ views' = NoViews
  /\ shown' = shown \cup {"monthly_view", "product_view", "efficiency_view",
                          "validation_details"}
  /\ pc' = "done"
  /\ UNCHANGED << uploaded_file, columns, resolved, st_error, st_info, sales_clean,
                  duplicate_check, df, summary, selected, filtered_df,
                  filter_summary >>

\* lines 315-316: nothing is left after filtering
EmptyWarning ==
  /\ pc = "filtered"
  /\ Len(filtered_df) = 0
  /\ shown' = shown \cup {"empty_warning"}
  /\ pc' = "done"
  /\ UNCHANGED << uploaded_file, columns, resolved, st_error, st_info, sales_clean,
                  duplicate_check, df, summary, selected, filtered_df,
                  filter_summary, views >>

\* the category tables (lines 446-491), one per available category
category_views(table, extras) ==
  LET available == available_categories(extras)
  IN  [i \in 1..Len(available) |->
        analyze_with_stock(table, extras, available[i][1], available[i][2])]

\* lines 317-761: the aggregate views
RenderViews ==
  /\ pc = "filtered"
  /\ Len(filtered_df) # 0
  /\ \E sort_option \in Range(sort_options) :
       views' = [ marketplace |-> IF "Maketplace" \in Extras
                                  THEN analyze_with_stock(filtered_df, Extras,
                                                          "Maketplace", "Marketplace")
                                  ELSE << >>,
                  categories  |-> category_views(filtered_df, Extras),
                  monthly     |-> monthly_data(filtered_df),
                  products    |-> product_data(filtered_df, sort_option),
                  efficiency  |-> efficiency_data(filtered_df) ]
  /\ shown' = shown
               \cup (IF "Maketplace" \in Extras THEN {"marketplace_view"} ELSE {})
               \cup (IF available_categories(Extras) # << >> THEN {"category_views"} ELSE {})
               \cup {"monthly_view", "product_view", "efficiency_view",
                     "validation_details"}
  /\ pc' = "done"
  /\ UNCHANGED << uploaded_file, columns, resolved, st_error, st_info, sales_clean,
                  duplicate_check, df, summary, selected, filtered_df,
                  filter_summary >>

Next ==
  \/ ReadExcel
  \/ ReadExcelRaises
  \/ IdentifyColumns
  \/ MissingColumns
  \/ Normalize
  \/ NormalizeRaises
  \/ HandleDuplicates
  \/ Derive
  \/ Summary
  \/ Filter
  \/ FilterRaises
  \/ EmptyWarning
  \/ RenderViews

Spec == Init /\ [][Next]_vars

(***************************************************************************)
(* Properties                                                              *)
(***************************************************************************)
\* the headers of the sheet, trimmed
TrimmedHeaders ==
  [i \in 1..Len(uploaded_file.columns) |-> strip(uploaded_file.columns[i])]

\* the trimmed headers in upper case
HeaderKeys == {upper(TrimmedHeaders[i]) : i \in 1..Len(uploaded_file.columns)}

\* the alias list of a canonical field
AliasesOf(f) ==
  IF f \in Range(RequiredFields) THEN RequiredAliases(f) ELSE additional_cols_mapping(f)

\* the aliases of names that a header in keys equals, ignoring case
MatchingAliases(names, keys) == {j \in 1..Len(names) : upper(names[j]) \in keys}

\* the required fields that no header of the sheet spells
Unresolved ==
  LET keys == HeaderKeys
  IN  {f \in Range(RequiredFields) : MatchingAliases(RequiredAliases(f), keys) = {}}

\* the required columns have just been looked up (resolved and columns do not
\* change afterwards, and every later position is reached from "normalize")
Validated == pc \in {"normalize", "stopped"} /\ uploaded_file.sheet = "Sales"

\* the optional columns have just been looked up too
Resolved == Validated \/ pc = "duplicates"

\* load_and_process_data has returned its table
Returned == pc \in {"summary", "filter", "filtered", "done", "failed"}

\* C1: if a required field cannot be resolved to a header of the Sales sheet,
\* the run halts at validation: the error lists exactly the unresolved
\* required fields, the actual headers are reported, and no canonical table,
\* summary metric, aggregate view or table is produced.
C1_MissingRequiredHalts ==
  /\ (Validated /\ Unresolved # {}) =>
        /\ pc = "stopped"
        /\ st_error = [kind   |-> "missing",
                       fields |-> SelectSeq(RequiredFields, LAMBDA f : f \in Unresolved)]
        /\ st_info = [kind |-> "columns", fields |-> TrimmedHeaders]
  /\ st_error.kind = "missing" =>
        /\ pc = "stopped"
        /\ sales_clean = << >>
        /\ df = << >>
        /\ shown = {}
        /\ summary = NoSummary
        /\ filtered_df = << >>
        /\ views = NoViews

\* a sheet with rows, without month and opening stock, has halted
C1_Witness ==
  /\ pc = "stopped"
  /\ Len(uploaded_file.rows) > 0
  /\ st_error = [kind |-> "missing", fields |-> << "Month", "Opening Stock" >>]

\* C2: whenever a run ends in a failure, no result output of that run is
\* displayed: a run that shows a result output has completed without error.
C2_FailedRunShowsNothing ==
  st_error.kind # "none" => shown \cap ResultOutputs = {}

\* C3: find_column, on the trimmed headers and an ordered alias list, returns
\* a header of the table that equals, ignoring case, the first alias that has
\* a match, and None exactly when no alias matches; the headers "style_id",
\* "STYLE_ID " and " Style_Id" all resolve to the style field.
C3_FindColumnFirstAlias ==
  Resolved =>
     LET keys == HeaderKeys
     IN  /\ columns = TrimmedHeaders
         /\ \A f \in DOMAIN resolved :
              LET names    == AliasesOf(f)
                  matching == MatchingAliases(names, keys)
              IN  IF matching = {} THEN resolved[f] = None
                  ELSE /\ resolved[f] \in Range(columns)
                       /\ upper(resolved[f]) =
                            upper(names[CHOOSE j \in matching : \A k \in matching : j <= k])
         /\ \A h \in { <<"s","t","y","l","e","_","i","d">>,
                       <<"S","T","Y","L","E","_","I","D"," ">>,
                       <<" ","S","t","y","l","e","_","I","d">> } :
              h \in Range(uploaded_file.columns) =>
                 upper(resolved["Style"]) = upper(StyleAliases[1])

\* "SKU" comes first in the sheet, yet the style column is " Style_Id",
\* trimmed: the alias Style_ID precedes the alias SKU
C3_Witness ==
  /\ Resolved
  /\ resolved["Style"] = <<"S","t","y","l","e","_","I","d">>
  /\ \E i, j \in 1..Len(columns) :
       i < j /\ columns[i] = <<"S","K","U">> /\ columns[j] = resolved["Style"]

\* C4: no header is resolved to two different canonical fields: the headers
\* chosen for the required and the optional fields are pairwise distinct.
C4_NoHeaderForTwoFields ==
  \A f, g \in DOMAIN resolved :
     (f # g /\ resolved[f] # None /\ resolved[g] # None) => resolved[f] # resolved[g]

\* required and optional fields are resolved, two of the optional ones found
C4_Witness ==
  /\ pc = "duplicates"
  /\ resolved["Maketplace"] # None
  /\ resolved["Date"] # None

\* the table the Duplicate Collapser is given
CollapserInput == Normalized(uploaded_file, columns, resolved)

\* the composite key: STYLE_ID, YEAR, MONTH, and Maketplace when present
CompositeKey ==
  << "STYLE_ID", "YEAR", "MONTH" >>
    \o (IF resolved["Maketplace"] # None THEN << "Maketplace" >> ELSE << >>)

\* the rows of table that share the key of row, in row order
SameKey(table, row) ==
  SelectSeq(table, LAMBDA r : KeyOf(r, CompositeKey) = KeyOf(row, CompositeKey))

\* x is the first cell of cells that is not missing, missing if there is none
IsFirstNonNull(x, cells) ==
  IF \A m \in 1..Len(cells) : IsNullCell(cells[m]) THEN IsNullCell(x)
  ELSE \E m \in 1..Len(cells) :
          /\ ~IsNullCell(cells[m])
          /\ x = cells[m]
          /\ \A k \in 1..(m - 1) : IsNullCell(cells[k])

\* the optional columns that are not part of the key
Descriptive == Extras \ {"Maketplace"}

\* C5 as stated: for every group of rows sharing the composite key, the
\* collapser sums SALES_QTY and OPENING_STOCK over the group and takes the
\* first non-null value, in row order, of every other column.
C5_SumsEveryQuantity ==
  pc = "derive" =>
     \A i \in 1..Len(CollapserInput) :
        LET group == SameKey(CollapserInput, CollapserInput[i])
        IN  \E o \in 1..Len(sales_clean) :
               /\ KeyOf(sales_clean[o], CompositeKey) = KeyOf(CollapserInput[i], CompositeKey)
               /\ sales_clean[o].SALES_QTY = SumInts(Col(group, "SALES_QTY"))
               /\ sales_clean[o].OPENING_STOCK = SumInts(Col(group, "OPENING_STOCK"))
               /\ \A f \in Descriptive :
                     IsFirstNonNull(sales_clean[o].extra[f],
                                    [m \in 1..Len(group) |-> group[m].extra[f]])

\* C5, amended: every row the collapser outputs holds, for the input rows
\* sharing its composite key, the sum of their SALES_QTY, the OPENING_STOCK
\* of the first of them and, for every other column, their first non-null
\* value in row order.
C5_CollapsedRowAggregates ==
  pc = "derive" =>
     \A o \in 1..Len(sales_clean) :
        LET group == SameKey(CollapserInput, sales_clean[o])
        IN  /\ group # << >>
            /\ sales_clean[o].SALES_QTY = SumInts(Col(group, "SALES_QTY"))
            /\ sales_clean[o].OPENING_STOCK = group[1].OPENING_STOCK
            /\ \A f \in Descriptive :
                  IsFirstNonNull(sales_clean[o].extra[f],
                                 [m \in 1..Len(group) |-> group[m].extra[f]])

\* rows (S1,2024,1,30,100,A,-) and (S1,2024,1,20,40,A,X) became
\* (S1,2024,1,50,100,A,X)
C5_Witness ==
  /\ pc = "derive"
  /\ duplicate_check = 2
  /\ \E o \in 1..Len(sales_clean) :
       /\ sales_clean[o].SALES_QTY = 50
       /\ sales_clean[o].OPENING_STOCK = 100
       /\ "Brand" \in Extras
       /\ sales_clean[o].extra["Brand"] = Text(<<"X">>)

\* C6: no two rows of the table returned by load_and_process_data have the
\* same composite key.
C6_UniqueCompositeKey ==
  Returned =>
     \A i, j \in 1..Len(df) :
        KeyOf(df[i], CompositeKey) = KeyOf(df[j], CompositeKey) => i = j

\* duplicates were found and the returned table has more than one row
C6_Witness ==
  /\ Returned
  /\ duplicate_check > 0
  /\ Len(df) > 1

\* C7: the collapser outputs exactly one row for each distinct composite key
\* of its input, a key with a null part included.
C7_OneRowPerInputKey ==
  pc = "derive" =>
     LET inkeys  == {KeyOf(CollapserInput[i], CompositeKey) : i \in 1..Len(CollapserInput)}
         outkeys == {KeyOf(sales_clean[o], CompositeKey) : o \in 1..Len(sales_clean)}
     IN  /\ outkeys = inkeys
         /\ Len(sales_clean) = Cardinality(inkeys)

\* C8: collapsing is a no-op on a table without duplicates (same rows, same
\* order, same values), collapsing a collapsed table yields the same table,
\* and the duplicate detection is executed on every run.
C8_CollapseIdempotent ==
  pc = "derive" =>
     /\ (\A i, j \in 1..Len(CollapserInput) :
            KeyOf(CollapserInput[i], CompositeKey) = KeyOf(CollapserInput[j], CompositeKey)
               => i = j)
          => sales_clean = CollapserInput
     /\ collapse(sales_clean, Extras) = sales_clean
     /\ duplicate_check = Len(CollapserInput) -
          Cardinality({i \in 1..Len(CollapserInput) :
                         Len(SameKey(CollapserInput, CollapserInput[i])) = 1})

\* a table without duplicates whose rows are not in key order, one of them
\* with a null year, is left as it is
C8_Witness ==
  /\ pc = "derive"
  /\ duplicate_check = 0
  /\ Len(sales_clean) = 3
  /\ sales_clean = CollapserInput
  /\ KeyLess(KeyOf(sales_clean[2], CompositeKey), KeyOf(sales_clean[1], CompositeKey),
             CompositeKey)
  /\ \E i \in 1..Len(sales_clean) : sales_clean[i].YEAR = NaN

\* C9: every record of the returned table has SALES_PERCENTAGE =
\* SALES_QTY / OPENING_STOCK * 100 when OPENING_STOCK > 0 and 0 otherwise,
\* from its own post-collapse quantities, and the value is never infinite or
\* undefined.
C9_SalesPercentage ==
  Returned =>
     /\ Len(df) = Len(sales_clean)
     /\ \A i \in 1..Len(df) :
          /\ df[i].SALES_QTY = sales_clean[i].SALES_QTY
          /\ df[i].OPENING_STOCK = sales_clean[i].OPENING_STOCK
          /\ IsFinite(df[i].SALES_PERCENTAGE)
          /\ df[i].OPENING_STOCK > 0 =>
                df[i].SALES_PERCENTAGE.n * df[i].OPENING_STOCK
                   = 100 * df[i].SALES_QTY * df[i].SALES_PERCENTAGE.d
          /\ df[i].OPENING_STOCK <= 0 => df[i].SALES_PERCENTAGE = [n |-> 0, d |-> 1]

\* a record with sales and no opening stock has percentage 0
C9_Witness ==
  /\ Returned
  /\ \E i \in 1..Len(df) :
       /\ df[i].OPENING_STOCK = 0
       /\ df[i].SALES_QTY # 0
       /\ df[i].SALES_PERCENTAGE = [n |-> 0, d |-> 1]

\* sum of SALES_QTY over sum of OPENING_STOCK times 100, 0 when the sum of
\* OPENING_STOCK is not positive, as a fraction p
IsRatioOfSums(p, table) ==
  LET sales   == SumInts(Col(table, "SALES_QTY"))
      opening == SumInts(Col(table, "OPENING_STOCK"))
  IN  IF opening > 0 THEN p.d > 0 /\ p.n * opening = 100 * sales * p.d
      ELSE p = [n |-> 0, d |-> 1]

\* C10: every percentage reported for a set of more than one record (the
\* rows of the marketplace, category, monthly and product views, the summary
\* metrics and the filter summary) is the sum of SALES_QTY over the sum of
\* OPENING_STOCK times 100, never an average of per-record percentages.
C10_PercentagesAreRatiosOfSums ==
  /\ (pc \in {"filter", "filtered", "done", "failed"} /\ Len(df) > 1) =>
        /\ IsRatioOfSums(summary.percentage, df)
        /\ IsRatioOfSums(summary.overall, df)
  /\ (pc \in {"filtered", "done"} /\ Len(filtered_df) > 1) =>
        IsRatioOfSums(filter_summary.percentage, filtered_df)
  /\ pc = "done" =>
        /\ \A i \in 1..Len(views.marketplace) :
              IsRatioOfSums(views.marketplace[i].SALES_PERCENTAGE,
                            SelectSeq(filtered_df,
                                      LAMBDA r : r.extra["Maketplace"]
                                                   = views.marketplace[i].value))
        /\ \A c \in 1..Len(views.categories) : \A i \in 1..Len(views.categories[c]) :
              IsRatioOfSums(views.categories[c][i].SALES_PERCENTAGE,
                            SelectSeq(filtered_df,
                                      LAMBDA r : r.extra[available_categories(Extras)[c][1]]
                                                   = views.categories[c][i].value))
        /\ \A i \in 1..Len(views.monthly) :
              IsRatioOfSums(views.monthly[i].SALES_PERCENTAGE,
                            SelectSeq(filtered_df,
                                      LAMBDA r : /\ r.YEAR = views.monthly[i].YEAR
                                                 /\ r.MONTH = views.monthly[i].MONTH))
        /\ \A i \in 1..Len(views.products) :
              IsRatioOfSums(views.products[i].SALES_PERCENTAGE,
                            SelectSeq(filtered_df,
                                      LAMBDA r : r.STYLE_ID = views.products[i].STYLE_ID))

\* the rows are rendered views of filtered_df
Rendered == pc = "done" /\ Len(filtered_df) # 0

\* the sum of SALES_QTY over the rows of a view
ViewSales(view) == SumInts([i \in 1..Len(view) |-> view[i].SALES_QTY])

\* C11: for every filtered record set and every aggregate view computed from
\* it (by Maketplace, by each available category, by month, by STYLE_ID, by
\* SALES_EFFICIENCY), the sum of SALES_QTY over the rows of the view equals
\* the sum of SALES_QTY over the filtered records, records whose grouping
\* value is null included.
C11_ViewsConserveSalesQty ==
  Rendered =>
     LET total == SumInts(Col(filtered_df, "SALES_QTY"))
     IN  /\ "Maketplace" \in Extras => ViewSales(views.marketplace) = total
         /\ \A c \in 1..Len(views.categories) : ViewSales(views.categories[c]) = total
         /\ ViewSales(views.monthly) = total
         /\ ViewSales(views.products) = total
         /\ ViewSales(views.efficiency) = total

\* pd.to_numeric reads the cell as a number: a number cell, or text that,
\* surrounding blanks aside, spells digits or an infinity
ParsesAsNumber(c) ==
  \/ c.t = "num"
  \/ /\ c.t = "text"
     /\ LET s == strip(c.s)
        IN  \/ s # << >> /\ \A i \in 1..Len(s) : s[i] \in Range(Digits)
            \/ upper(s) \in {<<"I","N","F">>, <<"I","N","F","I","N","I","T","Y">>}

\* the cell of row r of the sheet in the column resolved for field f
CellOf(f, r) == Series(uploaded_file, columns, resolved[f])[r]

\* C12: the normalizer applies the fill policy to every cell: a YEAR or MONTH
\* value that does not parse as a number becomes null, a SALES_QTY or
\* OPENING_STOCK value that does not parse or is blank becomes 0, STYLE_ID is
\* the cell's text without surrounding whitespace; a null year or month never
\* appears among the year and month filter options.
C12_FillPolicy ==
  /\ pc = "duplicates" =>
        /\ Len(sales_clean) = Len(uploaded_file.rows)
        /\ \A r \in 1..Len(sales_clean) :
             /\ ~ParsesAsNumber(CellOf("Year", r)) => sales_clean[r].YEAR = NaN
             /\ ~ParsesAsNumber(CellOf("Month", r)) => sales_clean[r].MONTH = NaN
             /\ ~ParsesAsNumber(CellOf("Sales Qty", r)) => sales_clean[r].SALES_QTY = 0
             /\ ~ParsesAsNumber(CellOf("Opening Stock", r)) =>
                   sales_clean[r].OPENING_STOCK = 0
             /\ CellOf("Style", r).t = "text" =>
                   sales_clean[r].STYLE_ID = strip(CellOf("Style", r).s)
             /\ LET id == sales_clean[r].STYLE_ID
                IN  id # << >> => id[1] # " " /\ id[Len(id)] # " "
  /\ pc = "filtered" =>
        /\ ~selected.year.all =>
              \E r \in Range(df) : r.YEAR.t = "num" /\ r.YEAR.v = selected.year.year
        /\ selected.month # "All" =>
              \E r \in Range(df) : r.MONTH.t = "num" /\ r.MONTH.v \in 1..12
                                   /\ month_names[r.MONTH.v] = selected.month

\* a sheet with a blank year, a blank opening stock and a quantity "x" was
\* normalized, and a year was selected while a record has a null YEAR
C12_Witness ==
  /\ pc = "filtered"
  /\ ~selected.year.all
  /\ \E r \in Range(df) : r.YEAR = NaN /\ r.OPENING_STOCK = 0
  /\ \E r \in Range(uploaded_file.rows) : r.qty.t = "text"
  /\ \E r \in Range(uploaded_file.rows) : r.year.t = "blank" /\ r.open.t = "blank"

\* C13: in every record of the canonical table, for every sheet that passes
\* validation, SALES_QTY and OPENING_STOCK are non-negative numbers.
C13_QuantitiesNonNegative ==
  Returned => \A r \in Range(df) : r.SALES_QTY >= 0 /\ r.OPENING_STOCK >= 0

\* C14: in every record of the canonical table MONTH is null or an integer
\* between 1 and 12, and MONTH_NAME is the English name of that month when
\* MONTH is in 1..12 and null otherwise.
C14_MonthInRange ==
  Returned =>
     \A r \in Range(df) :
        /\ r.MONTH = NaN \/ (r.MONTH.t = "num" /\ r.MONTH.v \in 1..12)
        /\ IF r.MONTH.t = "num" /\ r.MONTH.v \in 1..12
           THEN r.MONTH_NAME = month_names[r.MONTH.v]
           ELSE r.MONTH_NAME = NoName

\* percentages on and around the thresholds
SamplePercentages == {RatOfInt(k) : k \in {0, 1, 30, 31, 60, 61, 100, 101}}

\* the labels classify_sales_percentage gives to the sample percentages
ProducibleLabels == {classify_sales_percentage(p) : p \in SamplePercentages}

\* the label the claim gives to a percentage p >= 0, p = n / d
LabelOf(p) ==
  CASE p.n = 0                                -> "No Opening Stock"
    [] p.n > 0 /\ p.n <= 30 * p.d             -> "Low (<30%)"
    [] p.n > 30 * p.d /\ p.n <= 60 * p.d      -> "Medium (30-60%)"
    [] p.n > 60 * p.d /\ p.n <= 100 * p.d     -> "High (60-100%)"
    [] p.n > 100 * p.d                        -> "Very High (>100%)"

\* C15: classify_sales_percentage gives every record exactly one of five
\* labels by its percentage p >= 0: 'No Opening Stock' for p = 0, 'Low' for
\* 0 < p <= 30, 'Medium' for 30 < p <= 60, 'High' for 60 < p <= 100 and
\* 'Very High' for p > 100; the labels it can produce are exactly the
\* non-'All' options of the Sales Efficiency filter.
\* (The records are looked at when the table is returned; it does not change
\* afterwards.)
C15_ClassifyLabels ==
  /\ ProducibleLabels = Range(efficiency_options) \ {"All"}
  /\ pc = "summary" =>
        \A r \in Range(df) :
           /\ r.SALES_EFFICIENCY \in Range(efficiency_options) \ {"All"}
           /\ (r.SALES_PERCENTAGE.d > 0 /\ r.SALES_PERCENTAGE.n >= 0) =>
                 r.SALES_EFFICIENCY = LabelOf(r.SALES_PERCENTAGE)

\* a record at exactly 30% is 'Low', one at 140% is 'Very High', one at 50%
\* or 80% is in between
C15_Witness ==
  /\ Returned
  /\ \E r \in Range(df) :
       r.SALES_PERCENTAGE = [n |-> 30, d |-> 1] /\ r.SALES_EFFICIENCY = "Low (<30%)"
  /\ \E r \in Range(df) :
       r.SALES_PERCENTAGE = [n |-> 140, d |-> 1] /\ r.SALES_EFFICIENCY = "Very High (>100%)"
  /\ \E r \in Range(df) : r.SALES_EFFICIENCY \in {"Medium (30-60%)", "High (60-100%)"}

\* the views analyze_with_stock has produced, with their grouping column and
\* display label
StockViews ==
  (IF "Maketplace" \in Extras
   THEN {[view |-> views.marketplace, col |-> "Maketplace", name |-> "Marketplace"]}
   ELSE {})
  \cup {[view |-> views.categories[c],
         col  |-> available_categories(Extras)[c][1],
         name |-> available_categories(Extras)[c][2]] : c \in 1..Len(views.categories)}

\* C16: a view of analyze_with_stock has one row per distinct value of the
\* grouping dimension, holding the summed quantity measures, sorted in
\* descending order of the sort key, SALES_QTY by default, with the grouping
\* column renamed to the display label.
C16_SortedBySalesQty ==
  Rendered =>
     \A v \in StockViews :
        /\ \A i, j \in 1..Len(v.view) : v.view[i].value = v.view[j].value => i = j
        /\ \A i \in 1..Len(v.view) :
             LET group == SelectSeq(filtered_df,
                                    LAMBDA r : r.extra[v.col] = v.view[i].value)
             IN  /\ v.view[i].column = v.name
                 /\ v.view[i].SALES_QTY = SumInts(Col(group, "SALES_QTY"))
                 /\ v.view[i].OPENING_STOCK = SumInts(Col(group, "OPENING_STOCK"))
        /\ \A i, j \in 1..Len(v.view) :
             i < j => v.view[i].SALES_QTY >= v.view[j].SALES_QTY

\* the grouping columns of the optional views, with their display labels
OptionalDimensions == {<< "Maketplace", "Marketplace" >>} \cup Range(category_options)

\* the category columns the upload has
CategoriesPresent == {d \in Range(category_options) : d[1] \in Extras}

\* C17: analyze_with_stock with a grouping column that is not a column of the
\* table returns an empty result without raising, and every optional view
\* (marketplace, season, subcategory, color, brand, heel type) is skipped
\* without error when its column is absent from the upload.
C17_AbsentDimensionSkipped ==
  Rendered =>
     LET extras  == Extras
         present == CategoriesPresent
     IN  /\ st_error = NoMessage
         /\ \A d \in OptionalDimensions :
              d[1] \notin extras =>
                 analyze_with_stock(filtered_df, extras, d[1], d[2]) = << >>
         /\ "Maketplace" \notin extras =>
               views.marketplace = << >> /\ "marketplace_view" \notin shown
         /\ Len(views.categories) = Cardinality(present)
         /\ \A c \in 1..Len(views.categories) : \A i \in 1..Len(views.categories[c]) :
               \E d \in present : views.categories[c][i].column = d[2]
         /\ present = {} => "category_views" \notin shown

\* the views of a sheet with a brand column and no marketplace column: the
\* marketplace view is skipped, the only category table is the brand table
C17_Witness ==
  /\ Rendered
  /\ "Maketplace" \notin Extras
  /\ "Brand" \in Extras
  /\ Len(views.categories) = 1
  /\ views.categories[1] # << >>
  /\ "category_views" \in shown
  /\ "monthly_view" \in shown

\* the displays of the aggregate views
ViewOutputs ==
  { "marketplace_view", "category_views", "monthly_view", "product_view",
    "efficiency_view", "validation_details" }

\* C18: when the selected year, month and efficiency filters together select
\* zero records, the run reports an empty state and ends without an error:
\* no aggregate view is computed from the empty set and no exception is
\* raised, the filter summary computed before the emptiness check included.
C18_EmptySelectionIsNotAnError ==
  (pc \in {"filtered", "done"} /\ Len(filtered_df) = 0) =>
     /\ st_error = NoMessage
     /\ "filter_summary" \in shown
     /\ filter_summary.records = 0
     /\ filter_summary.total_sales = 0
     /\ filter_summary.total_opening_stock = 0
     /\ ~IsFinite(filter_summary.percentage)
     /\ pc = "done" =>
           /\ "empty_warning" \in shown
           /\ views = NoViews
           /\ shown \cap ViewOutputs = {}

\* a year and a month that no record of a non-empty table has together
C18_Witness ==
  /\ pc = "done"
  /\ Len(df) > 0
  /\ Len(filtered_df) = 0
  /\ ~selected.year.all
  /\ selected.month # "All"
  /\ "empty_warning" \in shown

\* record r satisfies every filter that is not 'All'
MatchesFilters(r) ==
  /\ selected.year.all \/ (r.YEAR.t = "num" /\ r.YEAR.v = selected.year.year)
  /\ \/ selected.month = "All"
     \/ /\ r.MONTH.t = "num"
        /\ r.MONTH.v \in 1..12
        /\ month_names[r.MONTH.v] = selected.month
  /\ selected.efficiency = "All" \/ r.SALES_EFFICIENCY = selected.efficiency

\* the filtered set is the canonical records that satisfy the filters
FilteredSetIsSelection ==
  pc \in {"filtered", "done"} =>
     /\ filtered_df = SelectSeq(df, MatchesFilters)
     /\ selected = NoSelection => filtered_df = df

\* C19: applying any combination of year, month and efficiency filters and
\* computing any aggregate view leaves the canonical table returned by
\* load_and_process_data unchanged; the filtered set is exactly the canonical
\* records that satisfy every non-'All' filter, the whole table when all
\* three filters are 'All'.
C19_FiltersLeaveTableUnchanged ==
  /\ []FilteredSetIsSelection
  /\ [][(pc \in {"filter", "filtered"}) => (df' = df)]_vars

\* an efficiency was selected, some records but not all were kept, and the
\* views were computed from them
C19_Witness ==
  /\ Rendered
  /\ selected.efficiency # "All"
  /\ Len(filtered_df) < Len(df)
  /\ views.products # << >>
  /\ df = derive(sales_clean)

\* C20: a record of the canonical table is labelled 'No Opening Stock' if and
\* only if its OPENING_STOCK is not greater than 0; a record with
\* OPENING_STOCK > 0 and SALES_QTY = 0 is not labelled 'No Opening Stock'.
C20_NoOpeningStockLabel ==
  Returned =>
     \A r \in Range(df) :
        (r.SALES_EFFICIENCY = "No Opening Stock") <=> ~(r.OPENING_STOCK > 0)
====
